---------------------------- MODULE Spec2Model ----------------------------
(***************************************************************************)
(* A model of gammapy's PSFMap (src/gammapy/irf/psf/psf_map.py): a PSF map *)
(* with axes energy_true, rad and sky position, its companion exposure     *)
(* map, and the operations that read them: containment, containment_radius,*)
(* containment_radius_map, get_psf_kernel, sample_coord, to_region_nd_map  *)
(* and to_image.                                                           *)
(*                                                                         *)
(* Numbers.  Map data are floats in the program.  Here every value is an   *)
(* exact fraction [n, d]; d = 0 stands for the float results of a division *)
(* by zero: n = 0 is NaN (0/0), n # 0 is +Inf or -Inf.                     *)
(*                                                                         *)
(* Axes.  The rad axis has NRad bins of width 2 (unit U), bin k centred at *)
(* 2k-1.  The sky is a strip of pixels 0 .. 2*HalfPix; coordinates handed  *)
(* to an operation are pixel centres and energy bin centres, so the only   *)
(* axis along which interpolation happens between nodes is rad.            *)
(***************************************************************************)
EXTENDS Integers, Sequences, FiniteSets, TLC

----------------------------------------------------------------------------
(* Bounds of the model *)

MaxVal == 1
NRad == 2
HalfPix == 1
MaxExp == 1
MaxW == 2
MaxFactor == 2
FracDen == 4
RngMod == 4
MaxEvents == 2
MaxAxes == 2
MaxBins == 4
MaxImages == 1
MaxRows == 2
MaxTime == 2
MaxWidth == 2
MaxFlux == 2
MaxCalls == 3

(* Program constants *)

UniformFirstArg == 360
LegendLimit == 10

Energies == {1, 2}
\* the target geometries of a kernel: half-widths max_radius (in target
\* pixels) and pixel sizes (in units U)
KernelRadii == {0, 1}
KernelBinsz == {1, 2}
RadBins == 1..NRad
Pixels == 0..(2 * HalfPix)
CenterPix == HalfPix
None == -1

----------------------------------------------------------------------------
(* Exact arithmetic with the float special values *)

RECURSIVE GCD(_, _)
GCD(a, b) == IF b = 0 THEN a ELSE GCD(b, a % b)

Abs(i) == IF i < 0 THEN -i ELSE i
Sign(i) == IF i < 0 THEN -1 ELSE IF i = 0 THEN 0 ELSE 1

NaN == [n |-> 0, d |-> 0]

\* n/d in lowest terms with d >= 0; x/0 keeps only the sign of x
Q(n, d) ==
    IF d = 0 THEN [n |-> Sign(n), d |-> 0]
    ELSE LET g == GCD(Abs(n), Abs(d))
         IN  [n |-> Sign(d) * (n \div g), d |-> Abs(d) \div g]

QInt(i) == [n |-> i, d |-> 1]
IsNaN(q) == q.d = 0 /\ q.n = 0
IsFinite(q) == q.d > 0

QAdd(a, b) ==
    IF a.d = 0 /\ b.d = 0 THEN (IF a.n = b.n THEN a ELSE NaN)
    ELSE IF a.d = 0 THEN a
    ELSE IF b.d = 0 THEN b
    ELSE Q(a.n * b.d + b.n * a.d, a.d * b.d)

QMul(a, b) == Q(a.n * b.n, a.d * b.d)

\* float division: 0/0 and Inf/Inf are NaN, x/0 is +-Inf, no exception
QDiv(a, b) ==
    IF IsNaN(a) \/ IsNaN(b) THEN NaN
    ELSE IF a.d = 0 /\ b.d = 0 THEN NaN
    ELSE Q(a.n * b.d, a.d * b.n)

\* float ==: NaN equals nothing, itself included
QEq(a, b) == ~IsNaN(a) /\ ~IsNaN(b) /\ a = b

QLe(a, b) == IsFinite(a) /\ IsFinite(b) /\ a.n * b.d <= b.n * a.d
QLt(a, b) == IsFinite(a) /\ IsFinite(b) /\ a.n * b.d < b.n * a.d

RECURSIVE SumOver(_, _)
SumOver(f, S) ==
    IF S = {} THEN 0
    ELSE LET x == CHOOSE y \in S : TRUE
         IN  f[x] + SumOver(f, {y \in S : y # x})

RECURSIVE QSumOver(_, _)
QSumOver(f, S) ==
    IF S = {} THEN QInt(0)
    ELSE LET x == CHOOSE y \in S : TRUE
         IN  QAdd(f[x], QSumOver(f, {y \in S : y # x}))

RECURSIVE ISqrtFrom(_, _)
ISqrtFrom(x, r) == IF (r + 1) * (r + 1) > x THEN r ELSE ISqrtFrom(x, r + 1)
ISqrt(x) == ISqrtFrom(x, 0)

----------------------------------------------------------------------------
(* The rad axis *)

RadEdge(k) == 2 * k
RadCenter(k) == RadEdge(k) - 1
RadWidth(k) == RadEdge(k) - RadEdge(k - 1)

----------------------------------------------------------------------------
(* Maps.  A map is [geom, data]: geom lists the non-spatial axes in order  *)
(* (name and number of bins) and the number of pixels; data is indexed by  *)
(* one bin per axis and a pixel.                                           *)

Axis(name, nbin) == [name |-> name, nbin |-> nbin]

PsfGeom == [axes |-> <<Axis("rad", NRad), Axis("energy_true", Cardinality(Energies))>>,
            npix |-> Cardinality(Pixels)]

\* geom.squash(axis_name="rad"): the rad axis collapsed to one bin
ExposureGeom == [axes |-> <<Axis("rad", 1), Axis("energy_true", Cardinality(Energies))>>,
                 npix |-> Cardinality(Pixels)]

NoMap == [geom |-> [axes |-> <<>>, npix |-> 0], data |-> <<>>]

\* The rad profiles a PSF table is built from, one per energy: constant,
\* falling to zero at the last rad bin, or rising
Shapes == {"flat", "dec", "inc"}
Profile(a, shape) ==
    [k \in RadBins |->
        CASE shape = "flat" -> a
          [] shape = "dec"  -> a * (NRad - k)
          [] shape = "inc"  -> a * k]
Profiles == {Profile(a, sh) : a \in 0..MaxVal, sh \in Shapes}
Tables == [Energies -> Profiles]

\* A PSF map that follows table T except at the pixel `dead` (outside the
\* field of view), where the PSF and the exposure are zero
PsfData(T, dead) ==
    [c \in Energies \X RadBins \X Pixels |->
        IF c[3] = dead THEN QInt(0) ELSE QInt(T[c[1]][c[2]])]
ExposureData(X, dead) ==
    [c \in Energies \X Pixels |->
        IF c[2] = dead THEN QInt(0) ELSE QInt(X[c[1]])]

----------------------------------------------------------------------------
(* State *)

VARIABLES
    heap,      \* the Map objects, by identity: heap[id] is [geom, data] or NoMap
    self,      \* the PSFMap under study: [psf_map, exposure_map], ids or None
    made,      \* heap[self.psf_map] and heap[self.exposure_map] as constructed,
               \* and whether a to_image(keepdims=False) is among the calls
               \* that made the instance
    ret,       \* the PSFMap the last deriving operation returned: ids or None
    rng,       \* the state of numpy's global random generator
    out,       \* the last call: its name, arguments and what it returned
    fig,       \* the matplotlib axes the plotting functions draw on
    shown,     \* the last plotting call: its name, arguments and outcome
    lcio       \* a light curve, the file written from it, and what was read

\* what the PSFMap operations leave alone
apart == <<fig, shown, lcio>>

vars == <<heap, self, made, ret, rng, out, apart>>

MapIds == 1..4
NoRet == [psf_map |-> None, exposure_map |-> None]

NoOut == [op |-> "none", raised |-> FALSE,
          position |-> None, energy |-> None, radbin |-> None, fraction |-> 0,
          max_radius |-> 0, factor |-> 0, binsz |-> 0,
          random_state |-> [kind |-> "none", seed |-> 0], map_coord |-> <<>>,
          region |-> [kind |-> "none", lo |-> None, hi |-> None],
          spectrum |-> <<>>, keepdims |-> FALSE, mutated |-> FALSE,
          repeated |-> FALSE,
          keys |-> {}, converted |-> FALSE, irf_keys |-> {},
          value |-> NaN, radius |-> <<>>,
          interp |-> <<>>, clipped |-> <<>>, downsampled |-> <<>>, kernel |-> <<>>,
          events |-> <<>>]

\* The axes: whether the object exists, the images drawn on it, the off
\* regions drawn on it, its legend (None, or its labels and the keyword
\* arguments it was made with), its format and its autoscale switch
\* (a dict of keyword arguments: the value of each key, or "unset")
NoKwargs == [ncol |-> "unset", handletextpad |-> "unset", handler_map |-> "unset"]
NoLegend == [present |-> FALSE, labels |-> <<>>, kwargs |-> NoKwargs]
NoAxes == [exists |-> FALSE, images |-> <<>>, regions |-> <<>>,
           legend |-> NoLegend, format |-> "none", autoscale |-> TRUE]
NoShown == [op |-> "none", raised |-> FALSE, ax |-> "none", map |-> <<>>,
            datasets |-> <<>>, legend |-> "none", legend_kwargs |-> NoKwargs,
            before |-> NoAxes, calls |-> 0]

\* A table: its meta and its columns, each with a unit and its cells
NoTable == [meta |-> <<>>, columns |-> <<>>]
NoFile == [format |-> "none", header |-> <<>>, columns |-> <<>>]
NoLcIo == [lc |-> NoTable, file |-> NoFile, back |-> NoTable]

\* PSFMap.__init__(psf_map, exposure_map=None)
New(psf, exposure, seed) ==
    /\ heap = [i \in MapIds |->
                 CASE i = 1 -> psf
                   [] i = 2 -> exposure
                   [] OTHER -> NoMap]
    /\ self = [psf_map |-> 1,
               exposure_map |-> IF exposure = NoMap THEN None ELSE 2]
    /\ made = [psf_map |-> psf, exposure_map |-> exposure, squeezed |-> FALSE]
    /\ ret = NoRet
    /\ rng = seed
    /\ out = NoOut
    /\ fig = NoAxes
    /\ shown = NoShown
    /\ lcio = NoLcIo

\* from_energy_dependent_table_psf: the same table at every pixel, and
\* table_psf.exposure at every pixel, for the tables whose exposure is one
\* unit at every energy
TableMaps ==
    {<<[geom |-> PsfGeom, data |-> PsfData(T, None)],
       [geom |-> ExposureGeom,
        data |-> ExposureData([e \in Energies |-> 1], None)]>> : T \in Tables}

\* A map made by hand: a constant PSF at the first energy and a falling one
\* at the second, with a dead pixel and a unit exposure elsewhere, or with
\* any exposure per energy, or with no exposure map at all
FieldTable == [e \in Energies |-> Profile(1, IF e = 1 THEN "flat" ELSE "dec")]
FieldMaps ==
    {<<[geom |-> PsfGeom, data |-> PsfData(FieldTable, dead)],
       [geom |-> ExposureGeom,
        data |-> ExposureData([e \in Energies |-> 1], dead)]>> : dead \in Pixels}
    \cup
    {<<[geom |-> PsfGeom, data |-> PsfData(FieldTable, None)],
       [geom |-> ExposureGeom, data |-> ExposureData(X, None)]>> :
        X \in [Energies -> 0..MaxExp]}
    \cup
    {<<[geom |-> PsfGeom, data |-> PsfData(FieldTable, dead)], NoMap>> :
        dead \in Pixels \cup {None}}

InitMaps == TableMaps \cup FieldMaps

Init == \E m \in InitMaps : New(m[1], m[2], 0)

----------------------------------------------------------------------------
(* get_psf_kernel *)

PsfMap == heap[self.psf_map]
Call(op) == [NoOut EXCEPT !.op = op]

\* geom.to_odd_npix(max_radius): max_radius counted in target pixels
OddNpix(max_radius) == 2 * max_radius + 1

\* geom.upsample(factor): the cells of the oversampled grid
Side(npix) == 0..(npix - 1)
Cells(npix) == Side(npix) \X Side(npix)

\* geom_upsampled.separation(geom.center_skydir): the distance of an
\* oversampled cell from the centre of the grid, rounded down to a whole
\* number of half oversampled pixels
Separation(c, npix, factor) ==
    LET dx == 2 * c[1] - (npix * factor - 1)
        dy == 2 * c[2] - (npix * factor - 1)
    IN  ISqrt(dx * dx + dy * dy)

\* Map.interp_by_coord(coords, fill_value=None, method="linear") at energy
\* bin e, pixel p and rad x / (2 * factor): linear between the two rad
\* centres around it and, as fill_value is None, along the first or last
\* segment outside them
RadNode(k, factor) == RadCenter(k) * 2 * factor
RadSegment(x, factor) ==
    LET below == {k \in 1..(NRad - 1) : RadNode(k, factor) <= x}
    IN  IF below = {} THEN 1
        ELSE CHOOSE k \in below : \A j \in below : j <= k
InterpRad(data, e, p, x, factor) ==
    LET k  == RadSegment(x, factor)
        x0 == RadNode(k, factor)
        x1 == RadNode(k + 1, factor)
        v0 == data[<<e, k, p>>]
        v1 == data[<<e, k + 1, p>>]
    IN  QDiv(QAdd(QMul(v0, QInt(x1 - x)), QMul(v1, QInt(x - x0))),
             QInt(x1 - x0))

\* np.clip(data, 0, np.inf)
Clip(q) == IF IsNaN(q) THEN q ELSE IF q.n < 0 THEN QInt(0) ELSE q

\* Map.downsample(factor, preserve_counts): each cell of the coarse grid
\* takes the sum (preserve_counts) or the mean of the factor x factor cells
\* it covers
Block(C, factor) ==
    ((C[1] * factor)..(C[1] * factor + factor - 1))
        \X ((C[2] * factor)..(C[2] * factor + factor - 1))
Downsample(grid, npix, factor, preserve_counts) ==
    [C \in Cells(npix) |->
        LET total == QSumOver(grid, Block(C, factor))
        IN  IF preserve_counts THEN total
            ELSE QDiv(total, QInt(factor * factor))]

\* PSFKernel(kernel_map, normalize): with normalize, every energy slice is
\* divided by its sum
PSFKernel(kernel_map, normalize) ==
    IF ~normalize THEN kernel_map
    ELSE [e \in DOMAIN kernel_map |->
            CHOOSE slice \in
                {[C \in DOMAIN kernel_map[e] |-> QDiv(kernel_map[e][C], total)] :
                    total \in {QSumOver(kernel_map[e], DOMAIN kernel_map[e])}} :
                TRUE]

\* line 209-210: position None means the centre of the PSF map
KernelPosition(position) == IF position = None THEN CenterPix ELSE position

\* line 219-228: the response on the oversampled grid; cells at the same
\* separation get the same value
KernelInterp(position, npix, factor, binsz) ==
    LET rad == [c \in Cells(npix * factor) |-> Separation(c, npix, factor)]
        seps == {rad[c] : c \in DOMAIN rad}
    IN  [e \in Energies |->
            LET at == [x \in seps |->
                        InterpRad(PsfMap.data, e, position, x * binsz, factor)]
            IN  [c \in DOMAIN rad |-> at[rad[c]]]]

\* line 230: negative values clipped
KernelClipNone(data) == data
KernelClip(data) ==
    [e \in DOMAIN data |-> [c \in DOMAIN data[e] |-> Clip(data[e][c])]]

\* line 231: kernel_map.downsample(factor, preserve_counts=True)
KernelDownsampleMean(clipped, npix, factor) ==
    [e \in DOMAIN clipped |-> Downsample(clipped[e], npix, factor, FALSE)]
KernelDownsample(clipped, npix, factor) ==
    [e \in DOMAIN clipped |-> Downsample(clipped[e], npix, factor, TRUE)]

\* line 232: PSFKernel(kernel_map, normalize=True)
KernelResultRaw(kernel_map) == PSFKernel(kernel_map, FALSE)
KernelResult(kernel_map) == PSFKernel(kernel_map, TRUE)

GetPsfKernel ==
    /\ out.op = "none"
    /\ \E position \in Pixels \cup {None}, max_radius \in KernelRadii,
          factor \in 1..MaxFactor, binsz \in KernelBinsz :
        \E npix \in {OddNpix(max_radius)} :
        \E data \in {KernelInterp(KernelPosition(position), npix, factor,
                                  binsz)} :
        \E clipped \in {KernelClip(data)} :
        \E down \in {KernelDownsample(clipped, npix, factor)} :
            out' = [Call("get_psf_kernel") EXCEPT
                        !.position = position, !.max_radius = max_radius,
                        !.factor = factor, !.binsz = binsz,
                        !.interp = data, !.clipped = clipped,
                        !.downsampled = down, !.kernel = KernelResult(down)]
    /\ UNCHANGED <<heap, self, made, ret, rng, apart>>

----------------------------------------------------------------------------
(* containment, containment_radius, containment_radius_map *)

\* coords: a dict with the keys skycoord (a pixel centre), energy_true (an
\* energy bin centre) and rad (the outer edge of a rad bin)
Coords(keys) ==
    {c \in [keys -> Pixels \cup Energies \cup RadBins] :
        /\ "skycoord" \in keys => c["skycoord"] \in Pixels
        /\ "energy_true" \in keys => c["energy_true"] \in Energies
        /\ "rad" \in keys => c["rad"] \in RadBins}

\* _psf_irf: the PSF map's data under the axes energy_true, rad, lat_idx,
\* lon_idx
PsfIrf ==
    [axes |-> <<"energy_true", "rad", "lat_idx", "lon_idx">>,
     data |-> PsfMap.data]

\* _get_irf_coords, line 135-144: MapCoord.create(coords) and coords.lon
\* need the sky position, coords["energy_true"] needs the energy; line
\* 146-149: a missing rad is caught
irf_coords_needs_rad(coords) ==
    {"skycoord", "energy_true", "rad"} \ DOMAIN coords # {}
irf_coords_missing(coords) ==
    {"skycoord", "energy_true"} \ DOMAIN coords # {}

\* PSF.containment(rad, ...): rad is a required argument
IrfContainmentMissing(c) == "rad" \notin DOMAIN c

\* _get_irf_coords: the sky position becomes a pixel index; rad is copied
\* when coords has it
get_irf_coords(coords) ==
    LET base == [k \in {"lon_idx", "lat_idx", "energy_true"} |->
                    CASE k = "lon_idx" -> coords["skycoord"]
                      [] k = "lat_idx" -> 0
                      [] k = "energy_true" -> coords["energy_true"]]
    IN  IF "rad" \in DOMAIN coords
        THEN [k \in DOMAIN base \cup {"rad"} |->
                IF k = "rad" THEN coords["rad"] ELSE base[k]]
        ELSE base

\* The response integrated over rad up to the outer edge of bin k, with the
\* weight rad * width of each bin
Cumulative(data, e, p, k) ==
    QSumOver([j \in 1..k |->
                QMul(data[<<e, j, p>>], QInt(RadCenter(j) * RadWidth(j)))], 1..k)

\* PSF.containment: the fraction of the response inside the edge of bin rad
IrfContainment(irf, c) ==
    QDiv(Cumulative(irf.data, c["energy_true"], c["lon_idx"], c["rad"]),
         Cumulative(irf.data, c["energy_true"], c["lon_idx"], NRad))

\* PSF.containment_radius: the smallest rad edge that encloses the fraction
\* (fraction / FracDen) of the response; a fraction outside [0, 1] raises
IrfContainmentRadius(irf, fraction, c) ==
    IF fraction < 0 \/ fraction > FracDen
    THEN [raised |-> TRUE, radius |-> 0]
    ELSE LET e == c["energy_true"]
             p == c["lon_idx"]
             total == Cumulative(irf.data, e, p, NRad)
             enough == {k \in 0..NRad :
                          QLe(QMul(QInt(fraction), total),
                              QMul(QInt(FracDen), Cumulative(irf.data, e, p, k)))}
         IN  [raised |-> FALSE,
              radius |-> IF enough = {} THEN RadEdge(NRad)
                         ELSE RadEdge(CHOOSE k \in enough : \A j \in enough : k <= j)]

\* line 166-167
containment(coords) == IrfContainment(PsfIrf, get_irf_coords(coords))

\* line 184-185
containment_radius_clipped(fraction, coords) ==
    IrfContainmentRadius(PsfIrf,
        IF fraction < 0 THEN 0 ELSE IF fraction > FracDen THEN FracDen ELSE fraction,
        get_irf_coords(coords))
containment_radius_outside(fraction, coords) ==
    IrfContainmentRadius(PsfIrf,
        IF fraction \in 0..FracDen THEN FracDen - fraction ELSE fraction,
        get_irf_coords(coords))
containment_radius(fraction, coords) ==
    IrfContainmentRadius(PsfIrf, fraction, get_irf_coords(coords))

\* line 249-261: the radius at every pixel of the image geometry
containment_radius_map(energy_true, fraction) ==
    LET at(p) == containment_radius(fraction,
                    [k \in {"skycoord", "energy_true"} |->
                        IF k = "skycoord" THEN p ELSE energy_true])
    IN  IF \E p \in Pixels : at(p).raised
        THEN [raised |-> TRUE, radius |-> <<>>]
        ELSE [raised |-> FALSE, radius |-> [p \in Pixels |-> at(p).radius]]

Fractions == (-1)..(FracDen + 1)

\* coords with any of the keys
AnyCoords(keys) == UNION {Coords(k) : k \in SUBSET keys}
Given(coords, key) == IF key \in DOMAIN coords THEN coords[key] ELSE None

\* what a call leaves of the coordinate conversion: whether it completed
\* and the keys it produced
Converted(call, coords) ==
    IF irf_coords_missing(coords)
    THEN [call EXCEPT !.keys = DOMAIN coords, !.raised = TRUE]
    ELSE [call EXCEPT !.keys = DOMAIN coords, !.converted = TRUE,
                      !.irf_keys = DOMAIN get_irf_coords(coords)]

Containment ==
    /\ out.op = "none"
    /\ \E coords \in AnyCoords({"skycoord", "energy_true", "rad"}) :
        LET call == Converted([Call("containment") EXCEPT
                                !.position = Given(coords, "skycoord"),
                                !.energy = Given(coords, "energy_true"),
                                !.radbin = Given(coords, "rad")], coords)
        IN  out' = IF call.raised THEN call
                   ELSE IF IrfContainmentMissing(get_irf_coords(coords))
                   THEN [call EXCEPT !.raised = TRUE]
                   ELSE [call EXCEPT !.value = containment(coords)]
    /\ UNCHANGED <<heap, self, made, ret, rng, apart>>

ContainmentRadiusCall(fraction, coords, repeated) ==
    LET call == Converted([Call("containment_radius") EXCEPT
                            !.repeated = repeated,
                            !.fraction = fraction,
                            !.position = Given(coords, "skycoord"),
                            !.energy = Given(coords, "energy_true")], coords)
        r == containment_radius(fraction, coords)
    IN  /\ out' = IF call.raised THEN call
                   ELSE [call EXCEPT
                            !.raised = r.raised,
                            !.radius = IF r.raised THEN <<>>
                                       ELSE [p \in {coords["skycoord"]} |-> r.radius]]
        /\ UNCHANGED <<heap, self, made, ret, rng, apart>>

ContainmentRadius ==
    /\ out.op = "none"
    /\ \E fraction \in Fractions, coords \in AnyCoords({"skycoord", "energy_true"}) :
        ContainmentRadiusCall(fraction, coords, FALSE)

\* the caller asks for another fraction at the coords of the last call
ContainmentRadiusAgain ==
    /\ out.op = "containment_radius"
    /\ out.converted
    /\ \E fraction \in Fractions :
        ContainmentRadiusCall(fraction,
            [k \in {"skycoord", "energy_true"} |->
                IF k = "skycoord" THEN out.position ELSE out.energy],
            TRUE)

ContainmentRadiusMap ==
    /\ out.op = "none"
    /\ \E fraction \in Fractions, energy_true \in Energies :
        LET r == containment_radius_map(energy_true, fraction)
        IN  out' = [Call("containment_radius_map") EXCEPT
                        !.fraction = fraction, !.energy = energy_true,
                        !.raised = r.raised, !.radius = r.radius]
    /\ UNCHANGED <<heap, self, made, ret, rng, apart>>

----------------------------------------------------------------------------
(* sample_coord *)

\* numpy's RandomState: a state in 0 .. RngMod-1; a draw returns the state
\* (the uniform variate state / RngMod of [0, 1)) and steps it
RngStep(s, n) == (s + n) % RngMod
Draws(s, n) == [i \in 1..n |-> RngStep(s, i - 1)]

\* random_state: an int seed or 'global-rng'
Seeded(seed) == [kind |-> "int", seed |-> seed]
GlobalRng == [kind |-> "global-rng", seed |-> 0]

\* gammapy.utils.random.get_random_state: a fresh generator from an int
\* seed, numpy's global generator for 'global-rng'
get_random_state(random_state) ==
    IF random_state.kind = "int"
    THEN [global |-> FALSE, state |-> random_state.seed % RngMod]
    ELSE [global |-> TRUE, state |-> rng]

\* line 299
SampleRandomStateGlobal(random_state) == get_random_state(GlobalRng)
SampleRandomState(random_state) == get_random_state(random_state)

\* numpy's RandomState.uniform(low=0.0, high=1.0, size): low + (high - low) * u
\* for the variate u / RngMod
NumpyUniform(low, high, u) == Q(low * RngMod + (high - low) * u, RngMod)

\* line 318: random_state.uniform(360, size=len(map_coord.lon)); the one
\* positional argument is low, and high keeps its default 1.0
PositionAngle(u) == NumpyUniform(UniformFirstArg, 1, u)

\* map_coord: n events, at successive pixels and alternating energies
MapCoords ==
    {[i \in 1..n |->
        [skycoord |-> (p0 + i - 1) % Cardinality(Pixels),
         energy_true |-> ((e0 + i) % 2) + 1]] :
        n \in 1..MaxEvents, p0 \in Pixels, e0 \in Energies}

\* line 308-312: the PSF at the event's position and energy, at every rad
\* centre, times rad centre and bin width
SamplePdf(event) ==
    [k \in RadBins |->
        QMul(PsfMap.data[<<event.energy_true, k, event.skycoord>>],
             QInt(RadCenter(k) * RadWidth(k)))]

\* InverseCDFSampler(pdf, axis=1).sample_axis() for one event and the
\* variate u / RngMod: the first bin whose cumulative share exceeds it (the
\* first bin of all when the pdf is zero everywhere), counted from 0
InverseCDF(pdf, u) ==
    LET cdf(k) == QSumOver(pdf, 1..k)
        over == {k \in RadBins :
                    QLt(QMul(QInt(u), cdf(NRad)), QMul(QInt(RngMod), cdf(k)))}
    IN  IF over = {} THEN 0
        ELSE (CHOOSE k \in over : \A j \in over : k <= j) - 1

\* rad_axis.pix_to_coord(pix_coord): the centre of bin pix_coord, from 0
RadPixToCoord(pix_coord) == RadCenter(pix_coord + 1)

\* line 299-325: the generator, the events it returned and its state after
sample_coord(map_coord, random_state) ==
    LET rs == SampleRandomState(random_state)
        n == Len(map_coord)
        choice == Draws(rs.state, n)
        angle == Draws(RngStep(rs.state, n), n)
    IN  [global |-> rs.global,
         state |-> RngStep(rs.state, 2 * n),
         events |->
            [i \in 1..n |->
                [skycoord |-> map_coord[i].skycoord,
                 energy_true |-> map_coord[i].energy_true,
                 separation |->
                    RadPixToCoord(InverseCDF(SamplePdf(map_coord[i]), choice[i])),
                 position_angle |-> PositionAngle(angle[i])]]]

SampleCoordCall(map_coord, random_state, repeated) ==
    LET r == sample_coord(map_coord, random_state)
    IN  /\ out' = [Call("sample_coord") EXCEPT
                        !.repeated = repeated,
                        !.random_state = random_state,
                        !.map_coord = map_coord,
                        !.events = r.events]
        /\ rng' = IF r.global THEN r.state ELSE rng
        /\ UNCHANGED <<heap, self, made, ret, apart>>

\* random_state an int seed (the default is the seed 0)
SampleCoord ==
    /\ out.op = "none"
    /\ \E map_coord \in MapCoords, seed \in 0..(RngMod - 1) :
        SampleCoordCall(map_coord, Seeded(seed), FALSE)

\* random_state='global-rng'
SampleCoordGlobal ==
    /\ out.op = "none"
    /\ \E map_coord \in MapCoords : SampleCoordCall(map_coord, GlobalRng, FALSE)

\* the caller repeats the last call, with the same arguments
SampleCoordAgain ==
    /\ out.op = "sample_coord"
    /\ SampleCoordCall(out.map_coord, out.random_state, TRUE)

----------------------------------------------------------------------------
(* Deriving operations: a new PSFMap made of new maps *)

\* A reference to a Map object: its identity and its value.  A map that an
\* operation builds gets an identity no live object has.
FreeIds == MapIds \ {self.psf_map, self.exposure_map}
NewPsfId == CHOOSE i \in FreeIds : \A j \in FreeIds : i <= j
NewExposureId ==
    CHOOSE i \in FreeIds \ {NewPsfId} : \A j \in FreeIds \ {NewPsfId} : i <= j
Ref(id, map) == [id |-> id, map |-> map]
NoRef == Ref(None, NoMap)
ExposureMap == IF self.exposure_map = None THEN NoMap ELSE heap[self.exposure_map]

\* self.__class__(psf_map=..., exposure_map=...): the returned instance
\* holds the two references
Return(op, psf, exposure) ==
    /\ ret' = [psf_map |-> psf.id, exposure_map |-> exposure.id]
    /\ heap' = [i \in MapIds |->
                  IF i = psf.id THEN psf.map
                  ELSE IF i = exposure.id THEN exposure.map
                  ELSE heap[i]]
    /\ out' = op
    /\ UNCHANGED <<self, made, rng, apart>>

----------------------------------------------------------------------------
(* to_region_nd_map *)

Point(p) == [kind |-> "point", lo |-> p, hi |-> p]
PixelRegion(lo, hi) == [kind |-> "pixels", lo |-> lo, hi |-> hi]
NoRegion == [kind |-> "none", lo |-> None, hi |-> None]
Regions ==
    {NoRegion} \cup {Point(p) : p \in Pixels}
        \cup {PixelRegion(lo, hi) : lo \in Pixels, hi \in Pixels}
RegionsInside == {r \in Regions : r.lo <= r.hi /\ r.hi < PsfMap.geom.npix}

\* line 104-105: without a region, the centre of the PSF map geometry
RegionOrFirstPixel(region) == IF region = NoRegion THEN Point(0) ELSE region
RegionOrCenter(region) ==
    IF region = NoRegion THEN Point(PsfMap.geom.npix \div 2) ELSE region

\* the region geometry of a map: its axes, and one spatial bin
RegionGeom(geom) == [geom EXCEPT !.npix = 1]

\* data with its last index (the pixel) replaced by p
AtPixel(c, p) == [i \in DOMAIN c |-> IF i = Len(c) THEN p ELSE c[i]]

\* np.nanmean: the mean of the values that are not NaN (NaN when none is)
NanMean(f, S) ==
    LET real == {x \in S : ~IsNaN(f[x])}
    IN  QDiv(QSumOver(f, real), QInt(Cardinality(real)))

\* Map.to_region_nd_map(region, func=np.nanmean): the value at a point, the
\* unweighted mean over the pixels of a region
MapToRegion(map, region) ==
    LET cells == {c \in DOMAIN map.data : c[Len(c)] = 0}
        inside == region.lo..region.hi
    IN  [geom |-> RegionGeom(map.geom),
         data |-> [c \in cells |->
                    IF region.kind = "point"
                    THEN map.data[AtPixel(c, region.lo)]
                    ELSE NanMean([p \in inside |-> map.data[AtPixel(c, p)]],
                                 inside)]]

\* line 109
RegionPsfWeighted(region) ==
    LET cells == {c \in DOMAIN PsfMap.data : c[Len(c)] = 0}
        inside == region.lo..region.hi
        exposure(c, x) ==
            IF self.exposure_map = None THEN QInt(1)
            ELSE ExposureMap.data[<<c[1], x>>]
    IN  Ref(NewPsfId,
            [geom |-> RegionGeom(PsfMap.geom),
             data |-> [c \in cells |->
                QDiv(QSumOver([x \in inside |->
                                QMul(PsfMap.data[AtPixel(c, x)], exposure(c, x))],
                              inside),
                     QSumOver([x \in inside |-> exposure(c, x)], inside))]])
RegionPsf(region) == Ref(NewPsfId, MapToRegion(PsfMap, region))

\* line 111-114
RegionExposureShared(region) ==
    IF self.exposure_map # None
    THEN Ref(self.exposure_map, ExposureMap)
    ELSE NoRef
RegionExposure(region) ==
    IF self.exposure_map # None
    THEN Ref(NewExposureId, MapToRegion(ExposureMap, region))
    ELSE NoRef

ToRegionNdMap ==
    /\ out.op = "none"
    /\ \E given \in RegionsInside :
        LET region == RegionOrCenter(given)
        IN  Return([Call("to_region_nd_map") EXCEPT !.region = given],
                   RegionPsf(region), RegionExposure(region))

----------------------------------------------------------------------------
(* to_image *)

\* spectrum: the weight of each energy bin; PowerLawSpectralModel(index=2.0),
\* the default, falls with energy
Spectra == [Energies -> 1..MaxW]
PowerLaw2 == [e \in Energies |-> Cardinality(Energies) + 1 - e]

\* the names of the axes of a geometry, and the energy bins of map data
AxisNames(geom) == {geom.axes[i].name : i \in DOMAIN geom.axes}
EnergyBins(data) == {c[1] : c \in DOMAIN data}

\* makers.utils._map_spectrum_weight: the exposure times the weight of its
\* energy bin, the weights of the bins of the map normalised to sum 1
map_spectrum_weight(map, spectrum) ==
    LET total == SumOver(spectrum, EnergyBins(map.data))
    IN  [map EXCEPT !.data = [c \in DOMAIN map.data |->
                                QMul(map.data[c], Q(spectrum[c[1]], total))]]

\* the geometry after sum_over_axes(["energy_true"], keepdims)
SumGeom(geom, keepdims) ==
    LET kept == SelectSeq(geom.axes, LAMBDA ax : ax.name # "energy_true")
        one  == [i \in DOMAIN geom.axes |->
                    IF geom.axes[i].name = "energy_true"
                    THEN Axis("energy_true", 1) ELSE geom.axes[i]]
    IN  [geom EXCEPT !.axes = IF keepdims THEN one ELSE kept]

\* an index without its energy bin, and with the single bin that replaces it
DropEnergy(c) == [i \in 1..(Len(c) - 1) |-> c[i + 1]]
WithEnergy(e, c) == <<e>> \o c

\* Map.sum_over_axes(axes_names=["energy_true"], keepdims)
SumOverEnergy(geom, data, keepdims) ==
    LET rest == {DropEnergy(c) : c \in DOMAIN data}
        bins == EnergyBins(data)
        total(t) == QSumOver([e \in bins |-> data[WithEnergy(e, t)]], bins)
    IN  [geom |-> SumGeom(geom, keepdims),
         data |-> IF keepdims
                  THEN [c \in {WithEnergy(1, t) : t \in rest} |-> total(DropEnergy(c))]
                  ELSE [t \in rest |-> total(t)]]

\* line 431-433
ImageExposure(exp_weighed, keepdims) ==
    SumOverEnergy(exp_weighed.geom, exp_weighed.data, keepdims)

\* the summed exposure at a pixel, whichever way it is indexed
ExposureAt(exposure, p) ==
    LET c == CHOOSE c \in DOMAIN exposure.data : c[Len(c)] = p
    IN  exposure.data[c]

\* line 435: exp_weighed.data * self.psf_map.data / exposure.data, the
\* exposure broadcast along rad and energy
ImagePsfDataSum(exp_weighed, exposure) ==
    [c \in DOMAIN PsfMap.data |->
        QMul(exp_weighed.data[<<c[1], c[3]>>], PsfMap.data[c])]
ImagePsfDataGuarded(exp_weighed, exposure) ==
    [c \in DOMAIN PsfMap.data |->
        IF ExposureAt(exposure, c[3]).n = 0 THEN QInt(0)
        ELSE QDiv(QMul(exp_weighed.data[<<c[1], c[3]>>], PsfMap.data[c]),
                  ExposureAt(exposure, c[3]))]
ImagePsfData(exp_weighed, exposure) ==
    [c \in DOMAIN PsfMap.data |->
        QDiv(QMul(exp_weighed.data[<<c[1], c[3]>>], PsfMap.data[c]),
             ExposureAt(exposure, c[3]))]

\* line 436-438
ImagePsfSqueezed(psf_data, keepdims) == SumOverEnergy(PsfMap.geom, psf_data, FALSE)
ImagePsf(psf_data, keepdims) == SumOverEnergy(PsfMap.geom, psf_data, keepdims)

ToImage ==
    /\ out.op = "none"
    /\ \E given \in Spectra \cup {<<>>}, keepdims \in BOOLEAN :
        LET spectrum == IF given = <<>> THEN PowerLaw2 ELSE given
            call == [Call("to_image") EXCEPT
                        !.spectrum = spectrum, !.keepdims = keepdims]
        IN  IF \/ self.exposure_map = None
               \/ "energy_true" \notin AxisNames(ExposureMap.geom)
            THEN \* _map_spectrum_weight(None, spectrum) raises, and so does
                 \* the look-up of the energy_true axis when there is none
                 /\ out' = [call EXCEPT !.raised = TRUE]
                 /\ UNCHANGED <<heap, self, made, ret, rng, apart>>
            ELSE LET exp_weighed == map_spectrum_weight(ExposureMap, spectrum)
                     exposure == ImageExposure(exp_weighed, keepdims)
                     psf_data == ImagePsfData(exp_weighed, exposure)
                 IN  Return(call,
                            Ref(NewPsfId, ImagePsf(psf_data, keepdims)),
                            Ref(NewExposureId, exposure))

----------------------------------------------------------------------------
(* The caller *)

\* the caller overwrites the data of a map of the returned instance:
\* ret.psf_map.data[...] = np.nan
Fill(map, v) == [map EXCEPT !.data = [c \in DOMAIN map.data |-> v]]
MutateReturned ==
    /\ out.op \in {"to_region_nd_map", "to_image"}
    /\ ~out.raised
    /\ ~out.mutated
    /\ \E which \in {"psf_map", "exposure_map"} :
        /\ ret[which] # None
        /\ heap' = [heap EXCEPT ![ret[which]] = Fill(heap[ret[which]], NaN)]
    /\ out' = [out EXCEPT !.mutated = TRUE]
    /\ UNCHANGED <<self, made, ret, rng, apart>>

\* the caller drops the result of the last call
Discard ==
    /\ out.op # "none"
    /\ out' = NoOut
    /\ ret' = NoRet
    /\ heap' = [i \in MapIds |->
                  IF i \in {ret.psf_map, ret.exposure_map} \cap FreeIds
                  THEN NoMap ELSE heap[i]]
    /\ UNCHANGED <<self, made, rng, apart>>

\* the caller goes on with the instance the last deriving operation
\* returned, and lets go of the one it had
Adopt ==
    /\ out.op \in {"to_region_nd_map", "to_image"}
    /\ ~out.raised
    /\ ~out.mutated
    /\ self' = ret
    /\ made' = [psf_map |-> heap[ret.psf_map],
                exposure_map |-> IF ret.exposure_map = None THEN NoMap
                                 ELSE heap[ret.exposure_map],
                squeezed |-> made.squeezed
                                \/ (out.op = "to_image" /\ ~out.keepdims)]
    /\ heap' = [i \in MapIds |->
                  IF i \in {ret.psf_map, ret.exposure_map} THEN heap[i]
                  ELSE NoMap]
    /\ ret' = NoRet
    /\ out' = NoOut
    /\ UNCHANGED <<rng, apart>>

Next ==
    \/ Containment
    \/ ContainmentRadius
    \/ ContainmentRadiusAgain
    \/ ContainmentRadiusMap
    \/ GetPsfKernel
    \/ SampleCoord
    \/ SampleCoordAgain
    \/ ToRegionNdMap
    \/ ToImage
    \/ MutateReturned
    \/ Discard

Spec == Init /\ [][Next]_vars

\* Chains of deriving operations, from the PSFMaps the constructors make:
\* from_geom (maps of zeros, line 276-280) and
\* from_energy_dependent_table_psf (which from_gauss calls, line 401-404)
GeomMaps ==
    {<<[geom |-> PsfGeom, data |-> [c \in Energies \X RadBins \X Pixels |-> QInt(0)]],
       [geom |-> ExposureGeom, data |-> [c \in Energies \X Pixels |-> QInt(0)]]>>}
ChainMaps ==
    GeomMaps \cup
    {<<[geom |-> PsfGeom, data |-> PsfData(FieldTable, None)],
       [geom |-> ExposureGeom,
        data |-> ExposureData([e \in Energies |-> 1], None)]>>}
InitChain == \E m \in ChainMaps : New(m[1], m[2], 0)

NextChain ==
    \/ ToRegionNdMap
    \/ ToImage
    \/ Adopt
    \/ Discard

SpecChain == InitChain /\ [][NextChain]_vars

\* Regions of any PSFMap: the hand-made maps (with a pixel outside the field
\* of view, with any exposure, without an exposure map) and the maps of the
\* constructors, and the maps derived from them
InitRegion == \E m \in FieldMaps \cup ChainMaps : New(m[1], m[2], 0)

SpecRegion == InitRegion /\ [][NextChain]_vars

\* Sampling alone, with numpy's global generator in any state and in use.
\* sample_coord reads the PSF map only: the hand-made maps, and one table
\* profile at every energy without an exposure map
SampleMaps ==
    FieldMaps \cup
    {<<[geom |-> PsfGeom, data |-> PsfData([e \in Energies |-> P], None)],
       NoMap>> : P \in Profiles}
InitSample ==
    \E m \in SampleMaps, seed \in 0..(RngMod - 1) : New(m[1], m[2], seed)

NextSample ==
    \/ SampleCoord
    \/ SampleCoordGlobal
    \/ SampleCoordAgain
    \/ Discard

SpecSample == InitSample /\ [][NextSample]_vars

----------------------------------------------------------------------------
(* plot_map_rgb *)

\* the maps handed to plot_map_rgb: up to MaxAxes non-spatial axes of 1, 3
\* or MaxBins bins each, all-sky or not; the data are one slice of two pixels
\* per bin of the first axis: all slices empty, all filled, or the first
\* empty and the others filled
RgbSlices == {<<0, 0>>, <<1, 2>>}
RgbGeoms ==
    {[axes |-> a, allsky |-> sky] :
        a \in UNION {[1..n -> {1, 3, MaxBins}] : n \in 0..MaxAxes},
        sky \in BOOLEAN}
RgbData(geom) ==
    IF Len(geom.axes) = 0 THEN {<<>>}
    ELSE {[b \in 1..geom.axes[1] |-> IF b = 1 THEN first ELSE rest] :
            first \in RgbSlices, rest \in {<<1, 2>>}}
         \cup {[b \in 1..geom.axes[1] |-> <<0, 0>>]}
RgbMaps ==
    UNION {{[geom |-> g, data |-> d] : d \in RgbData(g)} : g \in RgbGeoms}

\* np.nanmax(data_slice.flatten())
NanMax(slice) ==
    LET real == {i \in DOMAIN slice : ~IsNaN(slice[i])}
    IN  IF real = {} THEN NaN
        ELSE slice[CHOOSE i \in real : \A j \in real : QLe(slice[j], slice[i])]

\* line 67: every slice divided by its largest value
RgbNormalise(data) ==
    [b \in DOMAIN data |->
        LET slice == [i \in DOMAIN data[b] |-> QInt(data[b][i])]
        IN  [i \in DOMAIN slice |-> QDiv(slice[i], NanMax(slice))]]

\* line 62-65: the geometry check
RgbGeomWrongCount(geom) == Len(geom.axes) # 1
RgbGeomWrong(geom) == Len(geom.axes) # 1 \/ geom.axes[1] # 3

\* line 70-71: map_._plot_default_axes(ax) makes the axes when none is
\* given; ax.imshow(data) adds the image
RgbDraw(axes, image) ==
    [axes EXCEPT !.exists = TRUE, !.images = Append(axes.images, image)]

\* line 73-79: the format of the frame, and autoscale switched off
RgbFormat(axes, geom) ==
    [axes EXCEPT !.format = IF geom.allsky THEN "allsky" ELSE "wcs",
                 !.autoscale = FALSE]

\* plot_map_rgb(map_, ax): ax is None or the axes
plot_map_rgb(map_, ax) ==
    IF RgbGeomWrong(map_.geom)
    THEN [raised |-> TRUE, axes |-> fig]
    ELSE [raised |-> FALSE,
          axes |-> RgbFormat(RgbDraw(fig, RgbNormalise(map_.data)), map_.geom)]

\* the caller makes the axes: plt.subplot(...)
Subplot ==
    /\ ~fig.exists
    /\ fig' = [fig EXCEPT !.exists = TRUE]
    /\ shown' = [NoShown EXCEPT !.op = "subplot", !.before = fig,
                                !.calls = shown.calls]
    /\ UNCHANGED <<heap, self, made, ret, rng, out, lcio>>

PlotMapRgb ==
    /\ shown.calls < MaxImages
    /\ \E map_ \in RgbMaps, ax \in {"none"} \cup (IF fig.exists THEN {"ax"} ELSE {}) :
        LET r == plot_map_rgb(map_, ax)
        IN  /\ fig' = r.axes
            /\ shown' = [NoShown EXCEPT !.op = "plot_map_rgb", !.ax = ax,
                            !.map = map_, !.raised = r.raised, !.before = fig,
                            !.calls = shown.calls + 1]
    /\ UNCHANGED <<heap, self, made, ret, rng, out, lcio>>

\* no axes yet; the hand-made PSFMap without exposure map is left alone
InitRgb == New([geom |-> PsfGeom, data |-> PsfData(FieldTable, None)], NoMap, 0)

NextRgb ==
    \/ Subplot
    \/ PlotMapRgb

SpecRgb == InitRgb /\ [][NextRgb]_vars

----------------------------------------------------------------------------
(* plot_spectrum_datasets_off_regions *)

\* the datasets of a call, by name: n datasets, named by the running number
\* of the off regions drawn on the axes
DatasetCounts == {1, LegendLimit, LegendLimit + 1}
DatasetsNamed(n) == [i \in 1..n |-> Len(fig.regions) + i]

\* legend: True, False or None; legend_kwargs: None or a dict, with columns,
\* with a handler_map of the caller's, with a handletextpad
LegendArgs == {"True", "False", "None"}
LegendKwargsArgs ==
    {NoKwargs, [NoKwargs EXCEPT !.ncol = "2"],
     [NoKwargs EXCEPT !.handler_map = "user"],
     [NoKwargs EXCEPT !.handletextpad = "1"]}

\* line 142: legend or legend is None and len(datasets) <= 10
LegendWanted(legend, datasets) ==
    legend = "True" \/ (legend = "None" /\ Len(datasets) <= LegendLimit)

\* line 148-154: the off region of every dataset is drawn
OffRegionsDraw(ax, datasets) == [ax EXCEPT !.regions = @ \o datasets]

\* line 144, 157-160: one label per dataset, its name, when a legend is
\* wanted
OffRegionLabels(datasets, wanted) == IF wanted THEN datasets ELSE <<>>

\* line 163-166: the labels of the legend of the axes come first
LegendLabelsNew(ax, labels) == labels
LegendLabels(ax, labels) ==
    IF ax.legend.present THEN ax.legend.labels \o labels ELSE labels

\* line 143, 179-180: handletextpad defaults to 0.5, handler_map is set
LegendKwargs(legend_kwargs) ==
    [legend_kwargs EXCEPT
        !.handletextpad = IF @ = "unset" THEN "0.5" ELSE @,
        !.handler_map = "own"]

\* line 181: ax.legend(handles, labels, **legend_kwargs) replaces the legend
\* of the axes
AxLegend(ax, labels, kwargs) ==
    [ax EXCEPT !.legend = [present |-> TRUE, labels |-> labels,
                           kwargs |-> kwargs]]

\* line 139-183; without ax (line 139-140) the axes are made
plot_spectrum_datasets_off_regions(datasets, ax, legend, legend_kwargs) ==
    LET axes == IF ax = "none" THEN [fig EXCEPT !.exists = TRUE] ELSE fig
        wanted == LegendWanted(legend, datasets)
        drawn == OffRegionsDraw(axes, datasets)
        labels == OffRegionLabels(datasets, wanted)
    IN  IF wanted
        THEN AxLegend(drawn, LegendLabels(drawn, labels),
                      LegendKwargs(legend_kwargs))
        ELSE drawn

\* a call on the axes the caller has, or without axes when there are none
PlotOffRegions ==
    /\ shown.calls < MaxCalls
    /\ \E n \in DatasetCounts, legend \in LegendArgs,
          legend_kwargs \in LegendKwargsArgs,
          ax \in IF fig.exists THEN {"ax"} ELSE {"none"} :
        LET datasets == DatasetsNamed(n)
        IN  /\ fig' = plot_spectrum_datasets_off_regions(
                        datasets, ax, legend, legend_kwargs)
            /\ shown' = [NoShown EXCEPT
                            !.op = "plot_spectrum_datasets_off_regions",
                            !.ax = ax, !.datasets = datasets,
                            !.legend = legend,
                            !.legend_kwargs = legend_kwargs,
                            !.before = fig, !.calls = shown.calls + 1]
    /\ UNCHANGED <<heap, self, made, ret, rng, out, lcio>>

NextLegend ==
    \/ Subplot
    \/ PlotOffRegions

SpecLegend == InitRgb /\ [][NextLegend]_vars

----------------------------------------------------------------------------
(* LightCurve.write and LightCurve.read *)

RECURSIVE Digits(_)
Digits(frac) ==
    IF frac = <<>> THEN 0
    ELSE 10 * Digits(SubSeq(frac, 1, Len(frac) - 1)) + frac[Len(frac)]
RECURSIVE Pow10(_)
Pow10(k) == IF k = 0 THEN 1 ELSE 10 * Pow10(k - 1)

\* The light curves of the test: meta TIMESYS utc; per row a time interval
\* in MJD, a flux with its error, an upper limit that is NaN in the first
\* row, and the flag is_ul
Column(unit, dtype, cells) == [unit |-> unit, dtype |-> dtype, cells |-> cells]
LightCurveTable(n, t0, width, f) ==
    [meta |-> [TIMESYS |-> "utc"],
     columns |->
        [name \in {"time_min", "time_max", "flux", "flux_err", "flux_ul", "is_ul"} |->
            CASE name = "time_min" ->
                    Column("", "float", [i \in 1..n |-> QInt(t0 + (i - 1) * width)])
              [] name = "time_max" ->
                    Column("", "float", [i \in 1..n |-> QInt(t0 + i * width)])
              [] name = "flux" ->
                    Column("cm-2 s-1", "float", [i \in 1..n |-> Q(f * i, 2)])
              [] name = "flux_err" ->
                    Column("cm-2 s-1", "float", [i \in 1..n |-> Q(f * i, 4)])
              [] name = "flux_ul" ->
                    Column("cm-2 s-1", "float",
                           [i \in 1..n |-> IF i = 1 THEN NaN ELSE Q(f * i, 1)])
              [] name = "is_ul" ->
                    Column("", "bool", [i \in 1..n |-> i > 1])]]
LightCurves ==
    {LightCurveTable(n, t0, width, f) :
        n \in 1..MaxRows, t0 \in 0..MaxTime, width \in 1..MaxWidth,
        f \in 0..MaxFlux}

Formats == {"fits", "ascii.ecsv", "ascii.csv"}

\* a cell as text: True or False, nan, or a decimal number with the digits
\* it needs (the values here need at most two)
Word(text) == [text |-> text, whole |-> 0, frac |-> <<>>]
Decimal(v, digits) ==
    [text |-> "number", whole |-> v.n \div v.d,
     frac |-> [k \in 1..digits |-> (((v.n % v.d) * Pow10(k)) \div v.d) % 10]]
Text(dtype, v) ==
    IF dtype = "bool" THEN Word(IF v THEN "True" ELSE "False")
    ELSE IF IsNaN(v) THEN Word("nan")
    ELSE Decimal(v, 2)

\* a text cell read back as a number, and as a boolean
Parse(t) ==
    IF t.text = "nan" THEN NaN
    ELSE QAdd(QInt(t.whole), Q(Digits(t.frac), Pow10(Len(t.frac))))
ParseBool(t) == t.text = "True"
IsNumber(t) == t.text \in {"nan", "number"}

\* Table.write(filename, format): fits keeps the values in binary columns
\* with their units and the meta as header keywords; ascii.ecsv writes the
\* cells as text under a header with the meta and the unit and type of
\* every column; ascii.csv writes the column names and the cells as text,
\* and nothing else
TableWrite(table, format) ==
    [format |-> format,
     header |-> IF format = "ascii.csv" THEN <<>> ELSE table.meta,
     columns |->
        [name \in DOMAIN table.columns |->
            LET col == table.columns[name]
                text == [i \in DOMAIN col.cells |-> Text(col.dtype, col.cells[i])]
            IN  CASE format = "fits" -> col
                  [] format = "ascii.ecsv" -> Column(col.unit, col.dtype, text)
                  [] format = "ascii.csv" -> Column("", "", text)]]

\* Table.read(filename, format): an ecsv column is read as the type its
\* header names; a csv column is a column of numbers when every cell reads
\* as one, else a column of strings
TableRead(file) ==
    [meta |-> file.header,
     columns |->
        [name \in DOMAIN file.columns |->
            LET col == file.columns[name]
                numbers == \A i \in DOMAIN col.cells : IsNumber(col.cells[i])
            IN  CASE file.format = "fits" -> col
                  [] file.format = "ascii.ecsv" ->
                        Column(col.unit, col.dtype,
                               [i \in DOMAIN col.cells |->
                                    IF col.dtype = "bool"
                                    THEN ParseBool(col.cells[i])
                                    ELSE Parse(col.cells[i])])
                  [] file.format = "ascii.csv" ->
                        IF numbers
                        THEN Column("", "float",
                                    [i \in DOMAIN col.cells |-> Parse(col.cells[i])])
                        ELSE Column("", "str",
                                    [i \in DOMAIN col.cells |-> col.cells[i].text])]]

\* LightCurve.time_scale: TIMESYS of the meta, utc without it;
\* LightCurve.time_format
TimeScaleStrict(table) ==
    IF "TIMESYS" \in DOMAIN table.meta THEN table.meta["TIMESYS"] ELSE "tt"
TimeScale(table) ==
    IF "TIMESYS" \in DOMAIN table.meta THEN table.meta["TIMESYS"] ELSE "utc"
TimeFormat(table) == "mjd"

\* LightCurve.time: the middle of every interval
Time(table) ==
    LET lo == table.columns["time_min"].cells
        hi == table.columns["time_max"].cells
    IN  [i \in DOMAIN lo |->
            QAdd(lo[i], QDiv(QAdd(hi[i], QMul(QInt(-1), lo[i])), QInt(2)))]

\* LightCurve(table)
MakeLightCurve ==
    /\ lcio = NoLcIo
    /\ \E table \in LightCurves : lcio' = [NoLcIo EXCEPT !.lc = table]
    /\ UNCHANGED <<heap, self, made, ret, rng, out, fig, shown>>

\* lc.write(tmp_path / "tmp", format=format)
LightCurveWrite ==
    /\ lcio.lc # NoTable
    /\ lcio.file = NoFile
    /\ \E format \in Formats :
        lcio' = [lcio EXCEPT !.file = TableWrite(lcio.lc, format)]
    /\ UNCHANGED <<heap, self, made, ret, rng, out, fig, shown>>

\* LightCurve.read(tmp_path / "tmp", format=format), the format of the file
LightCurveRead ==
    /\ lcio.file # NoFile
    /\ lcio.back = NoTable
    /\ lcio' = [lcio EXCEPT !.back = TableRead(lcio.file)]
    /\ UNCHANGED <<heap, self, made, ret, rng, out, fig, shown>>

InitLc == New([geom |-> PsfGeom, data |-> PsfData(FieldTable, None)], NoMap, 0)

NextLc ==
    \/ MakeLightCurve
    \/ LightCurveWrite
    \/ LightCurveRead

SpecLc == InitLc /\ [][NextLc]_vars

----------------------------------------------------------------------------
(* Properties of get_psf_kernel *)

\* the sum of the cells of an energy slice, row by row
Mass(grid) ==
    LET rows == {c[1] : c \in DOMAIN grid}
    IN  QSumOver([r \in rows |->
                    QSumOver(grid, {c \in DOMAIN grid : c[1] = r})], rows)
\* the interpolated response of the last kernel call is positive somewhere
\* on the oversampled grid at energy e
PositiveSomewhere(e) == \E c \in DOMAIN out.interp[e] : out.interp[e][c].n > 0

\* C1 as stated: the kernel returned by get_psf_kernel has total mass 1 in
\* every energy_true bin, for every position, max_radius and oversampling
\* factor, also when the interpolated response is zero or negative
\* everywhere on the local grid.
C1_KernelMassOne ==
    out.op = "get_psf_kernel" =>
        \A e \in Energies : Mass(out.kernel[e]) = QInt(1)

\* C1 amended: the kernel returned by get_psf_kernel has total mass 1 in
\* every energy_true bin where the interpolated response is positive
\* somewhere on the local grid.
C1_KernelMassOneWherePositive ==
    out.op = "get_psf_kernel" =>
        \A e \in Energies :
            PositiveSomewhere(e) => Mass(out.kernel[e]) = QInt(1)

C1_Witness ==
    /\ out.op = "get_psf_kernel"
    /\ out.factor > 1
    /\ out.max_radius > 0
    /\ \E e \in Energies :
        /\ PositiveSomewhere(e)
        /\ \E c \in DOMAIN out.interp[e] : out.interp[e][c].n < 0
        /\ Mass(out.downsampled[e]) # QInt(1)
        /\ Mass(out.kernel[e]) = QInt(1)

\* C2: downsampling the clipped oversampled kernel map by the oversampling
\* factor preserves the total mass of every energy slice, and each
\* downsampled cell is the sum of the factor x factor oversampled cells it
\* covers.
C2_DownsamplePreservesMass ==
    out.op = "get_psf_kernel" =>
        \A e \in Energies :
            /\ Mass(out.downsampled[e]) = Mass(out.clipped[e])
            /\ DOMAIN out.downsampled[e] = Cells(OddNpix(out.max_radius))
            /\ \A C \in DOMAIN out.downsampled[e] :
                out.downsampled[e][C]
                    = QSumOver(out.clipped[e], Block(C, out.factor))

C2_Witness ==
    /\ out.op = "get_psf_kernel"
    /\ out.factor > 1
    /\ out.max_radius > 0
    /\ \E e \in Energies :
        /\ Mass(out.clipped[e]).n > 0
        /\ Mass(out.downsampled[e]) = Mass(out.clipped[e])
        /\ \E c, d \in DOMAIN out.clipped[e] : out.clipped[e][c] # out.clipped[e][d]

----------------------------------------------------------------------------
(* Properties of containment_radius and containment_radius_map *)

OutsideUnit(fraction) == fraction < 0 \/ fraction > FracDen

\* C3: containment_radius and containment_radius_map raise whenever the
\* fraction is below 0 or above 1, at every coords, and return no radius.
C3_FractionOutsideRaises ==
    (/\ out.op \in {"containment_radius", "containment_radius_map"}
     /\ OutsideUnit(out.fraction))
        => out.raised /\ out.radius = <<>>

C3_Witness ==
    /\ out.op = "containment_radius_map"
    /\ out.fraction > FracDen
    /\ out.raised
    /\ out.radius = <<>>

\* the radius the last containment_radius call returned
RadiusReturned(o) == o.radius[o.position]

\* C4: for a fixed PSFMap and fixed coords, containment_radius does not
\* decrease when the fraction grows: a call at the same coords with a
\* fraction at least as large returns a radius at least as large.
C4_RadiusMonotone ==
    [][(/\ out.op = "containment_radius" /\ ~out.raised
        /\ out'.op = "containment_radius" /\ ~out'.raised
        /\ out'.position = out.position /\ out'.energy = out.energy
        /\ out.fraction <= out'.fraction)
            => RadiusReturned(out) <= RadiusReturned(out')]_vars

C4_Witness ==
    /\ out.op = "containment_radius"
    /\ out.repeated
    /\ ~out.raised
    /\ out.fraction > 0
    /\ out.fraction < FracDen
    /\ RadiusReturned(out) > RadEdge(1)

----------------------------------------------------------------------------
(* Properties of sample_coord *)

\* C5: sample_coord is deterministic for an integer seed: a second call with
\* the same seed and the same map_coord returns the same events, the
\* default seed 0 included.
C5_SeededSampleRepeats ==
    [][(/\ out.op = "sample_coord"
        /\ out'.op = "sample_coord"
        /\ out.random_state.kind = "int"
        /\ out'.random_state = out.random_state
        /\ out'.map_coord = out.map_coord)
            => out'.events = out.events]_vars

C5_Witness ==
    /\ out.op = "sample_coord"
    /\ out.repeated
    /\ out.random_state = Seeded(0)
    /\ Len(out.events) > 1
    /\ rng # 0
    /\ \E i, j \in DOMAIN out.events :
        out.events[i].separation # out.events[j].separation

\* C6: every position angle sample_coord draws lies in [0, 360) degrees.
C6_PositionAngleInRange ==
    out.op = "sample_coord" =>
        \A i \in DOMAIN out.events :
            /\ QLe(QInt(0), out.events[i].position_angle)
            /\ QLt(out.events[i].position_angle, QInt(360))

----------------------------------------------------------------------------
(* Properties of to_image *)

\* the last call was to_image, it returned, and the caller has not yet
\* written to the returned maps
ImageReturned == out.op = "to_image" /\ ~out.raised /\ ~out.mutated

\* exposure_e * spectrum_weight_e at pixel p, from the maps as constructed
Weighted(e, p) ==
    QMul(made.exposure_map.data[<<e, p>>], QInt(out.spectrum[e]))
WeightedTotal(p) == QSumOver([e \in Energies |-> Weighted(e, p)], Energies)
\* the weight w_e of energy slice e at pixel p
SliceWeight(e, p) == QDiv(Weighted(e, p), WeightedTotal(p))
\* the weighted average of the energy slices at rad bin k and pixel p
WeightedAverage(k, p) ==
    QSumOver([e \in Energies |->
                QMul(SliceWeight(e, p), made.psf_map.data[<<e, k, p>>])],
             Energies)
\* the value of the returned PSF map at rad bin k and pixel p
ImageValue(k, p) ==
    heap[ret.psf_map].data[IF out.keepdims THEN <<1, k, p>> ELSE <<k, p>>]

\* the returned value at pixel p is a convex combination of the slices
ConvexAt(p) ==
    /\ \A e \in Energies : QLe(QInt(0), SliceWeight(e, p))
    /\ QSumOver([e \in Energies |-> SliceWeight(e, p)], Energies) = QInt(1)
    /\ \A k \in RadBins : QEq(ImageValue(k, p), WeightedAverage(k, p))

\* C7 as stated: to_image returns at every (rad, position) cell a convex
\* combination of the energy slices, with weights exposure_e * weight_e over
\* their sum, each non-negative and summing to 1, for both values of
\* keepdims.
C7_ConvexEverywhere ==
    ImageReturned => \A p \in Pixels : ConvexAt(p)

\* C7 amended: to_image returns such a convex combination at every cell
\* whose position has a non-zero summed weighted exposure, for both values
\* of keepdims.
C7_ConvexWhereExposed ==
    ImageReturned =>
        \A p \in Pixels : WeightedTotal(p) # QInt(0) => ConvexAt(p)

C7_Witness ==
    /\ ImageReturned
    /\ ~out.keepdims
    /\ \E p \in Pixels :
        /\ WeightedTotal(p) # QInt(0)
        /\ ConvexAt(p)
        /\ \A e \in Energies : SliceWeight(e, p).n > 0
        /\ \E e \in Energies : SliceWeight(e, p) # Q(1, Cardinality(Energies))
        /\ \E k \in RadBins :
            made.psf_map.data[<<1, k, p>>] # made.psf_map.data[<<2, k, p>>]

\* C8: where the spectrum-weighted exposure summed over energy is zero,
\* to_image raises nothing and returns NaN at every rad bin of that
\* position; the values at the other positions are finite.
C8_ZeroExposureGivesNaN ==
    (out.op = "to_image" /\ self.exposure_map # None) =>
        /\ ~out.raised
        /\ ~out.mutated =>
            \A p \in Pixels, k \in RadBins :
                IF WeightedTotal(p) = QInt(0)
                THEN IsNaN(ImageValue(k, p))
                ELSE IsFinite(ImageValue(k, p))

C8_Witness ==
    /\ ImageReturned
    /\ \E p, q \in Pixels, k \in RadBins :
        /\ WeightedTotal(p) = QInt(0)
        /\ IsNaN(ImageValue(k, p))
        /\ WeightedTotal(q) # QInt(0)
        /\ IsFinite(ImageValue(k, q))
        /\ ImageValue(k, q).n # 0

----------------------------------------------------------------------------
(* Properties of to_region_nd_map *)

\* the region of the last call covers one pixel, or is a sky position, or
\* was not given
SinglePixel(region) == region.kind = "none" \/ region.lo = region.hi
\* the pixel such a region stands for
PixelOf(region) == IF region.kind = "none" THEN CenterPix ELSE region.lo

\* C9: to_region_nd_map with a region of a single pixel, or a single sky
\* position, returns a PSF map that holds, at every energy_true and rad
\* bin, the value of the source PSF map at that pixel; without a region the
\* pixel is the centre of the PSF map geometry.
C9_SinglePixelIsDirectValue ==
    (/\ out.op = "to_region_nd_map" /\ ~out.mutated
     /\ SinglePixel(out.region))
        => /\ ret.psf_map # None
           /\ heap[ret.psf_map].geom = [PsfGeom EXCEPT !.npix = 1]
           /\ \A e \in Energies, k \in RadBins :
                heap[ret.psf_map].data[<<e, k, 0>>]
                    = made.psf_map.data[<<e, k, PixelOf(out.region)>>]

C9_Witness ==
    /\ out.op = "to_region_nd_map"
    /\ ~out.mutated
    /\ out.region = NoRegion
    /\ \E e \in Energies, k \in RadBins :
        /\ made.psf_map.data[<<e, k, CenterPix>>] # made.psf_map.data[<<e, k, 0>>]
        /\ heap[ret.psf_map].data[<<e, k, 0>>]
                = made.psf_map.data[<<e, k, CenterPix>>]

----------------------------------------------------------------------------
(* Frame *)

Deriving == {"to_region_nd_map", "to_image"}

\* C10: whatever operations ran, the psf_map and exposure_map of the PSFMap
\* hold the geometry and data they were constructed with; the instance a
\* deriving operation returns holds maps that are not maps of the source,
\* so that writing to them leaves the source as it was.
C10_SourceUnchanged ==
    /\ heap[self.psf_map] = made.psf_map
    /\ self.exposure_map # None => heap[self.exposure_map] = made.exposure_map
    /\ (out.op \in Deriving /\ ~out.raised) =>
        /\ ret.psf_map \in FreeIds
        /\ ret.exposure_map # None => ret.exposure_map \in FreeIds
        /\ ret.exposure_map # ret.psf_map

C10_Witness ==
    /\ out.op = "to_region_nd_map"
    /\ out.mutated
    /\ ret.exposure_map # None
    /\ \E c \in DOMAIN heap[ret.exposure_map].data :
        IsNaN(heap[ret.exposure_map].data[c])
    /\ heap[self.exposure_map] = made.exposure_map
    /\ \E c \in DOMAIN made.exposure_map.data : made.exposure_map.data[c].n > 0

----------------------------------------------------------------------------
(* Properties of plot_map_rgb *)

\* the map of the last plot_map_rgb call has one non-spatial axis of 3 bins
OneAxisOfThree(geom) == Len(geom.axes) = 1 /\ geom.axes[1] = 3

\* C11: plot_map_rgb raises ValueError exactly when the map does not have
\* one non-spatial axis of exactly 3 bins, and then the axes are as they
\* were before the call: nothing was created or drawn.
C11_RgbGeometryChecked ==
    shown.op = "plot_map_rgb" =>
        /\ shown.raised <=> ~OneAxisOfThree(shown.map.geom)
        /\ shown.raised => fig = shown.before

C11_Witness ==
    /\ shown.op = "plot_map_rgb"
    /\ shown.raised
    /\ Len(shown.map.geom.axes) = 1
    /\ shown.map.geom.axes[1] > 3
    /\ fig = shown.before
    /\ fig.exists

----------------------------------------------------------------------------
(* Properties of the coordinate conversion *)

\* C12: containment and containment_radius raise when coords lacks the sky
\* position or energy_true, and nothing is returned; when both are there
\* the conversion completes and produces exactly lon_idx, lat_idx and
\* energy_true, with rad added exactly when coords has it.
C12_RequiredCoordsKeys ==
    out.op \in {"containment", "containment_radius"} =>
        IF {"skycoord", "energy_true"} \subseteq out.keys
        THEN /\ out.converted
             /\ out.irf_keys = {"lon_idx", "lat_idx", "energy_true"}
                                \cup (out.keys \cap {"rad"})
        ELSE /\ out.raised
             /\ ~out.converted
             /\ IsNaN(out.value)
             /\ out.radius = <<>>

C12_Witness ==
    /\ out.op = "containment"
    /\ out.keys = {"skycoord", "rad"}
    /\ out.raised
    /\ ~out.converted

----------------------------------------------------------------------------
(* Properties of LightCurve.write and LightCurve.read *)

NumericColumns == {"time_min", "time_max", "flux", "flux_err", "flux_ul"}

----------------------------------------------------------------------------
(* Properties of the axes *)

\* geom.squash(axis_name="rad")
Squashed(geom) ==
    [geom EXCEPT !.axes = [i \in DOMAIN geom.axes |->
                            IF geom.axes[i].name = "rad" THEN Axis("rad", 1)
                            ELSE geom.axes[i]]]

\* the psf map has the axes rad and energy_true, with an exposure map over
\* its geometry with the rad axis collapsed
AxesKept(psf, exposure) ==
    /\ AxisNames(psf.geom) = {"rad", "energy_true"}
    /\ exposure # NoMap
    /\ exposure.geom = Squashed(psf.geom)

SelfAxesKept == AxesKept(heap[self.psf_map], ExposureMap)
RetAxesKept ==
    /\ ret.exposure_map # None
    /\ AxesKept(heap[ret.psf_map], heap[ret.exposure_map])
Returned == out.op \in {"to_region_nd_map", "to_image"} /\ ~out.raised

----------------------------------------------------------------------------
(* Properties of the clipping in get_psf_kernel *)

NonNegative(q) == QLe(QInt(0), q)
\* line 230: the clipped grid of the last kernel call is the interpolated
\* grid with zero in place of every negative value
ClippedOnce(e) ==
    /\ DOMAIN out.clipped[e] = DOMAIN out.interp[e]
    /\ \A c \in DOMAIN out.interp[e] :
        /\ out.interp[e][c].n < 0 => out.clipped[e][c] = QInt(0)
        /\ NonNegative(out.interp[e][c])
            => out.clipped[e][c] = out.interp[e][c]
NonNegativeGrid(grid) == \A c \in DOMAIN grid : NonNegative(grid[c])

----------------------------------------------------------------------------
(* Properties of to_region_nd_map *)

\* the pixels the last to_region_nd_map call reduced over: those of the
\* region, or the centre of the PSF map without one
ReducedPixels ==
    IF out.region = NoRegion THEN {heap[self.psf_map].geom.npix \div 2}
    ELSE out.region.lo..out.region.hi
\* the mean over those pixels of the values of `map` that are not NaN, with no
\* weight, at the bins c of the non-spatial axes
UnweightedMean(map, c) ==
    LET real == {p \in ReducedPixels : ~IsNaN(map.data[AtPixel(c, p)])}
    IN  IF real = {} THEN NaN
        ELSE QDiv(QSumOver([p \in real |-> map.data[AtPixel(c, p)]], real),
                  QInt(Cardinality(real)))
IsUnweightedMean(reduced, map) ==
    /\ reduced.geom = [map.geom EXCEPT !.npix = 1]
    /\ DOMAIN reduced.data = {c \in DOMAIN map.data : c[Len(c)] = 0}
    /\ \A c \in DOMAIN reduced.data : reduced.data[c] = UnweightedMean(map, c)

\* C16: to_region_nd_map returns as PSF the unweighted mean, over the pixels
\* of the region and ignoring NaN cells, of the PSF map alone (a function of
\* the PSF map and the region, whatever the exposure map holds); the
\* exposure map is reduced over the same pixels with the same mean, and the
\* returned PSFMap has an exposure map exactly when the source has one.
C16_RegionMeanUnweighted ==
    (out.op = "to_region_nd_map" /\ ~out.mutated) =>
        /\ ~out.raised
        /\ ret.psf_map # None
        /\ IsUnweightedMean(heap[ret.psf_map], heap[self.psf_map])
        /\ (ret.exposure_map # None) <=> (self.exposure_map # None)
        /\ self.exposure_map # None =>
                IsUnweightedMean(heap[ret.exposure_map], heap[self.exposure_map])

\* a region of several pixels, one of them NaN in the PSF map, with an
\* exposure that differs between its pixels: the reduced PSF is not the
\* exposure-weighted one
C16_Witness ==
    /\ out.op = "to_region_nd_map"
    /\ out.region.kind = "pixels"
    /\ out.region.lo < out.region.hi
    /\ self.exposure_map # None
    /\ ret.exposure_map # None
    /\ \E c \in DOMAIN heap[ret.psf_map].data :
        /\ \E p \in ReducedPixels : IsNaN(heap[self.psf_map].data[AtPixel(c, p)])
        /\ heap[ret.psf_map].data[c].n > 0
    /\ \E c \in DOMAIN heap[ret.exposure_map].data, p, q \in ReducedPixels :
        heap[self.exposure_map].data[AtPixel(c, p)]
            # heap[self.exposure_map].data[AtPixel(c, q)]

----------------------------------------------------------------------------
(* Properties of plot_spectrum_datasets_off_regions *)

\* a step that is a call of plot_spectrum_datasets_off_regions
OffRegionsCall ==
    /\ shown'.op = "plot_spectrum_datasets_off_regions"
    /\ shown'.calls = shown.calls + 1
\* the call of that step shows a legend: legend True, or None with at most
\* 10 datasets
ShowsLegend ==
    \/ shown'.legend = "True"
    \/ shown'.legend = "None" /\ Len(shown'.datasets) <= LegendLimit
IsPrefix(s, t) == Len(s) <= Len(t) /\ SubSeq(t, 1, Len(s)) = s

\* C17: along any sequence of calls on the same axes, a call makes the
\* legend exactly when legend is True, or None with at most 10 datasets, and
\* never when legend is False; a call that makes the legend keeps the labels
\* of the legend of the axes, in order, and appends the names of its
\* datasets in order, with the function's own handler_map whatever
\* legend_kwargs holds; any other call leaves the legend as it is; so the
\* labels of a legend are never lost.
C17_LegendLabelsKept ==
    [][/\ OffRegionsCall =>
            /\ ShowsLegend =>
                /\ fig'.legend.present
                /\ fig'.legend.labels = fig.legend.labels \o shown'.datasets
                /\ fig'.legend.kwargs.handler_map = "own"
            /\ ~ShowsLegend => fig'.legend = fig.legend
            /\ shown'.legend = "False" => ~ShowsLegend
            /\ fig'.regions = fig.regions \o shown'.datasets
        /\ IsPrefix(fig.legend.labels, fig'.legend.labels)]_vars

\* a second call with legend None and 10 datasets, on axes whose legend holds
\* the labels of the first call, given a handler_map of the caller's
C17_Witness ==
    /\ shown.op = "plot_spectrum_datasets_off_regions"
    /\ shown.calls = MaxCalls
    /\ shown.ax = "ax"
    /\ shown.legend = "None"
    /\ Len(shown.datasets) = LegendLimit
    /\ shown.legend_kwargs.handler_map = "user"
    /\ shown.before.legend.present
    /\ shown.before.legend.labels # <<>>
    /\ Len(shown.before.regions) > Len(shown.before.legend.labels)
    /\ fig.legend.labels = shown.before.legend.labels \o shown.datasets
    /\ fig.legend.kwargs.handler_map = "own"

============================================================================
